---- MODULE Spec2Model ----
(***************************************************************************)
(* Model of dc_federated.backend._worker_manager.WorkerManager: the set of *)
(* public keys, the list of allowed workers and the registration status of *)
(* each worker, with the operations that add, remove, register and         *)
(* authenticate workers.                                                   *)
(*                                                                         *)
(* Strings of the program are modelled as pairs <<kind, n>>:               *)
(*   <<"key", i>>      hex text of the i-th well-formed public key         *)
(*   <<"badkey", i>>   a text VerifyKey(..., HexEncoder) rejects           *)
(*   <<"unauth", t>>   sha224(str(t)).hexdigest() + '_unauthenticated'     *)
(*   <<"sig", i>>      hex text of the challenge signed by private key i   *)
(*                     (i = 0: well-formed hex signed by no stored key)    *)
(*   <<"nothex", 0>>   a text HexEncoder cannot decode                     *)
(***************************************************************************)
EXTENDS Integers, Sequences, FiniteSets, TLC

\* ------------------------------------------------------------------ bounds
NumKeys == 2
NumBadKeys == 1
MaxKeyList == 2
MaxClock == 2
NumThreads == 2
MaxCalls == 3

\* --------------------------------------------------------------- constants
INVALID_WORKER == <<"INVALID_WORKER", 0>>
NO_AUTHENTICATION == "NO_AUTHENTICATION"
AUTHENTICATED == "AUTHENTICATED"
message_seriously_wrong == <<"seriously_wrong", 0>>

ValidKeys == {<<"key", i>> : i \in 1..NumKeys}
MalformedKeys == {<<"badkey", i>> : i \in 1..NumBadKeys}
KeyTexts == ValidKeys \cup MalformedKeys
UnauthIds == {<<"unauth", t>> : t \in 0..MaxClock}
WorkerIds == KeyTexts \cup UnauthIds
Signatures == {<<"sig", i>> : i \in 0..NumKeys} \cup {<<"nothex", 0>>}
Threads == 1..NumThreads

VARIABLES do_public_key_auth, public_keys, allowed_workers, registered_workers,
          clock, last, everStored, th

vars == <<do_public_key_auth, public_keys, allowed_workers, registered_workers,
          clock, last, everStored, th>>

\* ------------------------------------------------------ library behaviour
\* VerifyKey(public_key_str.encode(), encoder=HexEncoder): raises unless the
\* text is the hex encoding of a 32-byte key.
VerifyKeyDecodes(public_key_str) == public_key_str[1] = "key"

\* VerifyKey.verify(signed_message.encode(), encoder=HexEncoder): HexEncoder
\* raises binascii.Error on text that is not hex; a decodable message whose
\* signature does not match the key raises BadSignatureError.
Verify(public_key_str, signed_message) ==
    IF signed_message[1] = "nothex" THEN "binascii.Error"
    ELSE IF public_key_str[1] = "key" /\ signed_message = <<"sig", public_key_str[2]>>
         THEN "ok"
         ELSE "BadSignatureError"

\* time.time(): a reading t made when the previous reading was c. The clock
\* may not have advanced between two readings.
TimeReadings(c) == {t \in {c, c + 1} : t <= MaxClock}

\* ------------------------------------------------------------ list helpers
Range(s) == {s[i] : i \in 1..Len(s)}

Count(s, x) == Cardinality({i \in 1..Len(s) : s[i] = x})

\* list.remove(x): removes the first occurrence of x.
ListRemove(s, x) ==
    LET i == CHOOSE j \in 1..Len(s) : s[j] = x /\ \A m \in 1..(j - 1) : s[m] # x
    IN  SubSeq(s, 1, i - 1) \o SubSeq(s, i + 1, Len(s))

\* dict[k] = v
DictSet(d, k, v) == [x \in DOMAIN d \cup {k} |-> IF x = k THEN v ELSE d[x]]

\* ---------------------------------------------------------------- a store
\* The fields of a WorkerManager object, as one record, and the result of a
\* call: the store it leaves, the exception it raised ("None" when it
\* returned) and the value it returned.
Store == [do_public_key_auth |-> do_public_key_auth,
          public_keys |-> public_keys,
          allowed_workers |-> allowed_workers,
          registered_workers |-> registered_workers,
          clock |-> clock]

Returned(st, val) == [st |-> st, exc |-> "None", val |-> val]

Raised(st, exc) == [st |-> st, exc |-> exc, val |-> <<>>]

\* ------------------------------------------------------------- operations
\* add_public_key reporting False for a key that is already stored.
add_public_key_readd_fails(st, public_key_str) ==
    IF ~st.do_public_key_auth THEN Returned(st, TRUE)
    ELSE IF public_key_str \notin st.public_keys
         THEN IF VerifyKeyDecodes(public_key_str)
              THEN Returned([st EXCEPT !.public_keys = @ \cup {public_key_str}], TRUE)
              ELSE Returned(st, FALSE)
         ELSE Returned(st, FALSE)

add_public_key(st, public_key_str) ==
    IF ~st.do_public_key_auth THEN Returned(st, TRUE)
    ELSE IF public_key_str \notin st.public_keys
         THEN IF VerifyKeyDecodes(public_key_str)
              THEN Returned([st EXCEPT !.public_keys = @ \cup {public_key_str}], TRUE)
              ELSE Returned(st, FALSE)
         ELSE Returned(st, TRUE)

delete_public_key(st, public_key_str) ==
    IF ~st.do_public_key_auth THEN Returned(st, TRUE)
    ELSE IF public_key_str \in st.public_keys
         THEN Returned([st EXCEPT !.public_keys = @ \ {public_key_str}], TRUE)
         ELSE Returned(st, TRUE)

get_keys(st) == st.public_keys

\* t is the reading of time.time() the call makes in unsafe mode.
generate_id_for_worker(st, public_key_str, t) ==
    IF st.do_public_key_auth
    THEN Returned(st, public_key_str)
    ELSE Returned([st EXCEPT !.clock = t], <<"unauth", t>>)

\* _add_worker without the test of line 143: it appends every time.
_add_worker_always_appends(st, public_key_str, t) ==
    LET g == generate_id_for_worker(st, public_key_str, t)
        worker_id == g.val
        s1 == g.st
    IN  IF s1.do_public_key_auth /\ public_key_str \notin s1.public_keys
        THEN Returned(s1, <<message_seriously_wrong, FALSE>>)
        ELSE Returned([s1 EXCEPT
                         !.allowed_workers = Append(@, worker_id),
                         !.registered_workers = DictSet(@, worker_id, FALSE)],
                      <<worker_id, TRUE>>)

\* _add_worker keeping a registration status that is already recorded
\* (setdefault in place of the assignment of line 145).
_add_worker_keeps_status(st, public_key_str, t) ==
    LET g == generate_id_for_worker(st, public_key_str, t)
        worker_id == g.val
        s1 == g.st
    IN  IF s1.do_public_key_auth /\ public_key_str \notin s1.public_keys
        THEN Returned(s1, <<message_seriously_wrong, FALSE>>)
        ELSE IF worker_id \notin Range(s1.allowed_workers)
             THEN Returned([s1 EXCEPT
                              !.allowed_workers = Append(@, worker_id),
                              !.registered_workers =
                                  IF worker_id \in DOMAIN @ THEN @
                                  ELSE DictSet(@, worker_id, FALSE)],
                           <<worker_id, TRUE>>)
             ELSE Returned(s1, <<worker_id, FALSE>>)

\* _add_worker running line 145 in the else branch too: a worker added again
\* loses its registration.
_add_worker_resets_status(st, public_key_str, t) ==
    LET g == generate_id_for_worker(st, public_key_str, t)
        worker_id == g.val
        s1 == g.st
    IN  IF s1.do_public_key_auth /\ public_key_str \notin s1.public_keys
        THEN Returned(s1, <<message_seriously_wrong, FALSE>>)
        ELSE IF worker_id \notin Range(s1.allowed_workers)
             THEN Returned([s1 EXCEPT
                              !.allowed_workers = Append(@, worker_id),
                              !.registered_workers = DictSet(@, worker_id, FALSE)],
                           <<worker_id, TRUE>>)
             ELSE Returned([s1 EXCEPT !.registered_workers =
                                         DictSet(@, worker_id, FALSE)],
                           <<worker_id, FALSE>>)

_add_worker(st, public_key_str, t) ==
    LET g == generate_id_for_worker(st, public_key_str, t)
        worker_id == g.val
        s1 == g.st
    IN  IF s1.do_public_key_auth /\ public_key_str \notin s1.public_keys
        THEN Returned(s1, <<message_seriously_wrong, FALSE>>)
        ELSE IF worker_id \notin Range(s1.allowed_workers)
             THEN Returned([s1 EXCEPT
                              !.allowed_workers = Append(@, worker_id),
                              !.registered_workers = DictSet(@, worker_id, FALSE)],
                           <<worker_id, TRUE>>)
             ELSE Returned(s1, <<worker_id, FALSE>>)

add_worker(st, public_key_str, t) ==
    IF st.do_public_key_auth /\ ~add_public_key(st, public_key_str).val
    THEN Returned(st, <<INVALID_WORKER, FALSE>>)
    ELSE _add_worker(add_public_key(st, public_key_str).st, public_key_str, t)

\* set_registration_status testing registered_workers instead of
\* allowed_workers at line 173.
set_registration_status_by_entry(st, worker_id, should_register) ==
    IF worker_id \in DOMAIN st.registered_workers
    THEN Returned([st EXCEPT !.registered_workers =
                                DictSet(@, worker_id, should_register)],
                  <<worker_id, TRUE>>)
    ELSE Returned(st, <<INVALID_WORKER, FALSE>>)

set_registration_status(st, worker_id, should_register) ==
    IF worker_id \in Range(st.allowed_workers)
    THEN IF worker_id \notin DOMAIN st.registered_workers
         THEN Raised(st, "KeyError")
         ELSE Returned([st EXCEPT !.registered_workers =
                                     DictSet(@, worker_id, should_register)],
                       <<worker_id, TRUE>>)
    ELSE Returned(st, <<INVALID_WORKER, FALSE>>)

\* remove_worker without line 200: the key goes, the worker stays allowed.
remove_worker_keeps_allowed(st, worker_id) ==
    IF worker_id \in Range(st.allowed_workers)
    THEN Returned(delete_public_key(st, worker_id).st, <<worker_id, TRUE>>)
    ELSE Returned(st, <<INVALID_WORKER, FALSE>>)

remove_worker(st, worker_id) ==
    IF worker_id \in Range(st.allowed_workers)
    THEN LET s1 == [st EXCEPT !.allowed_workers = ListRemove(@, worker_id)]
         IN  Returned(delete_public_key(s1, worker_id).st, <<worker_id, TRUE>>)
    ELSE Returned(st, <<INVALID_WORKER, FALSE>>)

authenticate_worker(st, public_key_str, signed_message) ==
    IF ~st.do_public_key_auth THEN Returned(st, <<TRUE, NO_AUTHENTICATION>>)
    ELSE IF public_key_str \notin st.public_keys
         THEN Returned(st, <<FALSE, AUTHENTICATED>>)
         ELSE LET v == Verify(public_key_str, signed_message)
              IN  IF v = "ok" THEN Returned(st, <<TRUE, AUTHENTICATED>>)
                  ELSE IF v = "BadSignatureError"
                       THEN Returned(st, <<FALSE, AUTHENTICATED>>)
                       ELSE Raised(st, v)

\* authenticate_and_add_worker without the test of auth_success, adding
\* through add_worker.
authenticate_and_add_worker_noauth(st, public_key_str, signed_phrase, t) ==
    LET w == add_worker(st, public_key_str, t)
    IN  set_registration_status(w.st, w.val[1], TRUE)

\* authenticate_and_add_worker without line 96: it returns what _add_worker
\* returned and registers nothing.
authenticate_and_add_worker_noreg(st, public_key_str, signed_phrase, t) ==
    LET a == authenticate_worker(st, public_key_str, signed_phrase)
    IN  IF a.exc # "None" THEN Raised(st, a.exc)
        ELSE IF a.val[1]
             THEN _add_worker(st, public_key_str, t)
             ELSE Returned(st, <<INVALID_WORKER, FALSE>>)

authenticate_and_add_worker(st, public_key_str, signed_phrase, t) ==
    LET a == authenticate_worker(st, public_key_str, signed_phrase)
    IN  IF a.exc # "None" THEN Raised(st, a.exc)
        ELSE IF a.val[1]
             THEN LET w == _add_worker(st, public_key_str, t)
                  IN  set_registration_status(w.st, w.val[1], TRUE)
             ELSE Returned(st, <<INVALID_WORKER, FALSE>>)

get_worker_list(st) ==
    {[worker_id |-> w, registration_status |-> st.registered_workers[w]] :
        w \in DOMAIN st.registered_workers}

is_worker_allowed(st, worker_id) == worker_id \in Range(st.allowed_workers)

is_worker_registered(st, worker_id) ==
    worker_id \in DOMAIN st.registered_workers /\ st.registered_workers[worker_id]

\* ------------------------------------------------------------ construction
\* __init__ in safe mode: the loop over the lines of the key list file.
\* The loop of __init__ made to stop at the first key add_public_key rejects.
RECURSIVE AddKeyList_stops(_, _)
AddKeyList_stops(st, keys) ==
    IF keys = <<>> THEN st
    ELSE LET key == Head(keys)
             a == add_public_key(st, key)
         IN  IF a.val
             THEN AddKeyList_stops(add_worker(a.st, key, st.clock).st, Tail(keys))
             ELSE a.st

RECURSIVE AddKeyList(_, _)
AddKeyList(st, keys) ==
    IF keys = <<>> THEN st
    ELSE LET key == Head(keys)
             a == add_public_key(st, key)
         IN  AddKeyList(IF a.val THEN add_worker(a.st, key, st.clock).st ELSE a.st,
                        Tail(keys))

\* __init__(server_mode_safe, key_list_file); keys is the content of the key
\* list file, <<>> when there is none. Unsafe mode with a key list raises
\* ValueError and constructs nothing, so it is no initial state.
WorkerManagerInit(server_mode_safe, keys) ==
    LET empty == [do_public_key_auth |-> server_mode_safe,
                  public_keys |-> {},
                  allowed_workers |-> <<>>,
                  registered_workers |-> <<>>,
                  clock |-> 0]
    IN  IF server_mode_safe THEN AddKeyList(empty, keys) ELSE empty

KeyLists == UNION {[1..n -> KeyTexts] : n \in 0..MaxKeyList}

\* A thread of the server: where it is in the call it runs (pc), the call and
\* its arguments, the local worker_id, the outcome of its last call and the
\* number of calls it has begun.
Idle == [pc |-> "idle", calls |-> 0, op |-> "none", arg |-> INVALID_WORKER,
         sig |-> <<"sig", 0>>, flag |-> FALSE, worker_id |-> INVALID_WORKER,
         exc |-> "None", val |-> <<>>]

NoCall == [op |-> "init", arg |-> INVALID_WORKER, sig |-> <<"sig", 0>>,
           flag |-> FALSE, exc |-> "None", val |-> <<>>, pre |-> <<>>,
           keys |-> <<>>]

Init ==
    \E server_mode_safe \in BOOLEAN, keys \in KeyLists :
        /\ (~server_mode_safe => keys = <<>>)
        /\ LET st == WorkerManagerInit(server_mode_safe, keys)
           IN  /\ do_public_key_auth = st.do_public_key_auth
               /\ public_keys = st.public_keys
               /\ allowed_workers = st.allowed_workers
               /\ registered_workers = st.registered_workers
               /\ clock = st.clock
               /\ everStored = st.public_keys
               /\ last = [NoCall EXCEPT !.pre = st, !.keys = keys]
        /\ th = [t \in Threads |-> Idle]

\* ------------------------------------------------- calls, one at a time
\* A complete call: r is what the operation computed from Store. last keeps
\* the call, its arguments, its outcome and the store it started from;
\* everStored keeps the key texts that the key list, add_public_key or
\* add_worker ever put in public_keys. Until the first call, last holds the
\* key list the object was constructed with.
Call(op, arg, sig, flag, r) ==
    /\ do_public_key_auth' = r.st.do_public_key_auth
    /\ public_keys' = r.st.public_keys
    /\ allowed_workers' = r.st.allowed_workers
    /\ registered_workers' = r.st.registered_workers
    /\ clock' = r.st.clock
    /\ everStored' = IF op \in {"add_worker", "add_public_key"}
                      THEN everStored \cup r.st.public_keys
                      ELSE everStored
    /\ last' = [op |-> op, arg |-> arg, sig |-> sig, flag |-> flag,
                exc |-> r.exc, val |-> r.val, pre |-> Store,
                keys |-> <<>>]
    /\ UNCHANGED th

AddWorker ==
    \E k \in KeyTexts, t \in TimeReadings(clock) :
        Call("add_worker", k, <<"sig", 0>>, FALSE, add_worker(Store, k, t))

RemoveWorker ==
    \E i \in WorkerIds :
        Call("remove_worker", i, <<"sig", 0>>, FALSE, remove_worker(Store, i))

AuthenticateAndAddWorker ==
    \E k \in KeyTexts, s \in Signatures, t \in TimeReadings(clock) :
        Call("authenticate_and_add_worker", k, s, FALSE,
             authenticate_and_add_worker(Store, k, s, t))

SetRegistrationStatus ==
    \E i \in WorkerIds, v \in BOOLEAN :
        Call("set_registration_status", i, <<"sig", 0>>, v,
             set_registration_status(Store, i, v))

AddPublicKey ==
    \E k \in KeyTexts :
        Call("add_public_key", k, <<"sig", 0>>, FALSE, add_public_key(Store, k))

DeletePublicKey ==
    \E k \in KeyTexts :
        Call("delete_public_key", k, <<"sig", 0>>, FALSE, delete_public_key(Store, k))

AuthenticateWorker ==
    \E k \in KeyTexts, s \in Signatures :
        Call("authenticate_worker", k, s, FALSE, authenticate_worker(Store, k, s))

\* Every public operation, called one at a time.
Next ==
    \/ AddWorker
    \/ RemoveWorker
    \/ AuthenticateAndAddWorker
    \/ SetRegistrationStatus
    \/ AddPublicKey
    \/ DeletePublicKey
    \/ AuthenticateWorker

Spec == Init /\ [][Next]_vars

\* The operations that keep the key store and the allowed list together:
\* the key store is changed only through add_public_key and the calls that
\* add or remove a worker.
NextRegistry ==
    \/ AddWorker
    \/ RemoveWorker
    \/ AuthenticateAndAddWorker
    \/ SetRegistrationStatus
    \/ AddPublicKey

SpecRegistry == Init /\ [][NextRegistry]_vars

\* -------------------------------------------- calls running concurrently
\* The class takes no lock: threads that call into one WorkerManager
\* interleave between any two accesses to its fields. Each action below is
\* one such access by thread t, with the test or assignment around it.
RECURSIVE CallsBegun(_)
CallsBegun(n) == IF n = 0 THEN 0 ELSE th[n].calls + CallsBegun(n - 1)

\* Thread t begins a call; the threads begin at most MaxCalls calls in all.
Begin(t, op, arg, sig, flag) ==
    /\ th[t].pc = "idle" /\ CallsBegun(NumThreads) < MaxCalls
    /\ th' = [th EXCEPT ![t] = [pc |-> op, calls |-> @.calls + 1, op |-> op,
                                arg |-> arg, sig |-> sig, flag |-> flag,
                                worker_id |-> arg, exc |-> "None", val |-> <<>>]]
    /\ UNCHANGED <<do_public_key_auth, public_keys, allowed_workers,
                   registered_workers, clock, last, everStored>>

Goto(t, pc) == th' = [th EXCEPT ![t].pc = pc]

\* The call of thread t ends: its locals are gone, its outcome stays.
Return(t, val) ==
    th' = [th EXCEPT ![t] = [Idle EXCEPT !.calls = th[t].calls, !.op = th[t].op,
                                         !.arg = th[t].arg, !.val = val]]

Raise(t, exc) ==
    th' = [th EXCEPT ![t] = [Idle EXCEPT !.calls = th[t].calls, !.op = th[t].op,
                                         !.arg = th[t].arg, !.exc = exc]]

BeginAddWorker(t) ==
    \E k \in KeyTexts : Begin(t, "add_worker", k, <<"sig", 0>>, FALSE)

BeginRemoveWorker(t) ==
    \E i \in WorkerIds : Begin(t, "remove_worker", i, <<"sig", 0>>, FALSE)

BeginAuthenticateAndAddWorker(t) ==
    \E k \in KeyTexts, s \in Signatures :
        Begin(t, "authenticate_and_add_worker", k, s, FALSE)

BeginSetRegistrationStatus(t) ==
    \E i \in WorkerIds, v \in BOOLEAN :
        Begin(t, "set_registration_status", i, <<"sig", 0>>, v)

\* add_worker, line 116, and add_public_key, lines 224 and 227.
AddWorkerKeyCheck(t) ==
    /\ th[t].pc = "add_worker"
    /\ IF do_public_key_auth /\ th[t].arg \notin public_keys
       THEN Goto(t, "add_public_key_store")
       ELSE Goto(t, "generate_id")
    /\ UNCHANGED <<do_public_key_auth, public_keys, allowed_workers,
                   registered_workers, clock, last, everStored>>

\* add_public_key, line 228, and add_worker, lines 117 to 119.
AddWorkerKeyStore(t) ==
    /\ th[t].pc = "add_public_key_store"
    /\ IF VerifyKeyDecodes(th[t].arg)
       THEN /\ public_keys' = public_keys \cup {th[t].arg}
            /\ Goto(t, "generate_id")
       ELSE /\ UNCHANGED public_keys
            /\ Return(t, <<INVALID_WORKER, FALSE>>)
    /\ UNCHANGED <<do_public_key_auth, allowed_workers, registered_workers,
                   clock, last, everStored>>

\* _add_worker, line 138.
GenerateId(t) ==
    /\ th[t].pc = "generate_id"
    /\ IF do_public_key_auth
       THEN /\ th' = [th EXCEPT ![t].pc = "key_check", ![t].worker_id = th[t].arg]
            /\ UNCHANGED clock
       ELSE \E r \in TimeReadings(clock) :
               /\ th' = [th EXCEPT ![t].pc = "key_check",
                                   ![t].worker_id = <<"unauth", r>>]
               /\ clock' = r
    /\ UNCHANGED <<do_public_key_auth, public_keys, allowed_workers,
                   registered_workers, last, everStored>>

\* What follows the return of _add_worker: add_worker returns its result
\* (line 120), authenticate_and_add_worker goes on to
\* set_registration_status(worker_id, True) (lines 95 and 96).
AfterAddWorker(t, val) ==
    IF th[t].op = "authenticate_and_add_worker"
    THEN th' = [th EXCEPT ![t].pc = "set_registration_status",
                          ![t].worker_id = val[1], ![t].flag = TRUE]
    ELSE Return(t, val)

\* _add_worker, lines 139 to 142.
AddWorkerConsistencyCheck(t) ==
    /\ th[t].pc = "key_check"
    /\ IF do_public_key_auth /\ th[t].arg \notin public_keys
       THEN AfterAddWorker(t, <<message_seriously_wrong, FALSE>>)
       ELSE Goto(t, "allowed_check")
    /\ UNCHANGED <<do_public_key_auth, public_keys, allowed_workers,
                   registered_workers, clock, last, everStored>>

\* _add_worker, line 143, and lines 149 to 152.
AddWorkerAllowedCheck(t) ==
    /\ th[t].pc = "allowed_check"
    /\ IF th[t].worker_id \notin Range(allowed_workers)
       THEN Goto(t, "append")
       ELSE AfterAddWorker(t, <<th[t].worker_id, FALSE>>)
    /\ UNCHANGED <<do_public_key_auth, public_keys, allowed_workers,
                   registered_workers, clock, last, everStored>>

\* _add_worker, line 144.
AddWorkerAppend(t) ==
    /\ th[t].pc = "append"
    /\ allowed_workers' = Append(allowed_workers, th[t].worker_id)
    /\ Goto(t, "set_unregistered")
    /\ UNCHANGED <<do_public_key_auth, public_keys, registered_workers,
                   clock, last, everStored>>

\* _add_worker, lines 145 to 148.
AddWorkerSetUnregistered(t) ==
    /\ th[t].pc = "set_unregistered"
    /\ registered_workers' = DictSet(registered_workers, th[t].worker_id, FALSE)
    /\ AfterAddWorker(t, <<th[t].worker_id, TRUE>>)
    /\ UNCHANGED <<do_public_key_auth, public_keys, allowed_workers,
                   clock, last, everStored>>

\* set_registration_status, line 173, and lines 178 to 181.
SetStatusAllowedCheck(t) ==
    /\ th[t].pc = "set_registration_status"
    /\ IF th[t].worker_id \in Range(allowed_workers)
       THEN Goto(t, "read_status")
       ELSE Return(t, <<INVALID_WORKER, FALSE>>)
    /\ UNCHANGED <<do_public_key_auth, public_keys, allowed_workers,
                   registered_workers, clock, last, everStored>>

\* set_registration_status, line 174: a missing entry raises KeyError.
SetStatusRead(t) ==
    /\ th[t].pc = "read_status"
    /\ IF th[t].worker_id \in DOMAIN registered_workers
       THEN Goto(t, "write_status")
       ELSE Raise(t, "KeyError")
    /\ UNCHANGED <<do_public_key_auth, public_keys, allowed_workers,
                   registered_workers, clock, last, everStored>>

\* set_registration_status, lines 175 to 177.
SetStatusWrite(t) ==
    /\ th[t].pc = "write_status"
    /\ registered_workers' = DictSet(registered_workers, th[t].worker_id, th[t].flag)
    /\ Return(t, <<th[t].worker_id, TRUE>>)
    /\ UNCHANGED <<do_public_key_auth, public_keys, allowed_workers,
                   clock, last, everStored>>

\* remove_worker, line 199, and lines 205 to 207.
RemoveAllowedCheck(t) ==
    /\ th[t].pc = "remove_worker"
    /\ IF th[t].arg \in Range(allowed_workers)
       THEN Goto(t, "list_remove")
       ELSE Return(t, <<INVALID_WORKER, FALSE>>)
    /\ UNCHANGED <<do_public_key_auth, public_keys, allowed_workers,
                   registered_workers, clock, last, everStored>>

\* remove_worker, line 200: list.remove of an absent value raises ValueError.
RemoveFromAllowed(t) ==
    /\ th[t].pc = "list_remove"
    /\ IF th[t].arg \in Range(allowed_workers)
       THEN /\ allowed_workers' = ListRemove(allowed_workers, th[t].arg)
            /\ Goto(t, "delete_public_key")
       ELSE /\ UNCHANGED allowed_workers
            /\ Raise(t, "ValueError")
    /\ UNCHANGED <<do_public_key_auth, public_keys, registered_workers,
                   clock, last, everStored>>

\* delete_public_key, lines 252 and 255, and remove_worker, line 204, when
\* there is no key to delete.
RemoveKeyCheck(t) ==
    /\ th[t].pc = "delete_public_key"
    /\ IF do_public_key_auth /\ th[t].arg \in public_keys
       THEN Goto(t, "delete_public_key_del")
       ELSE Return(t, <<th[t].arg, TRUE>>)
    /\ UNCHANGED <<do_public_key_auth, public_keys, allowed_workers,
                   registered_workers, clock, last, everStored>>

\* delete_public_key, line 256 (the KeyError of a key deleted meanwhile is
\* caught at line 261), and remove_worker, line 204.
RemoveKeyDelete(t) ==
    /\ th[t].pc = "delete_public_key_del"
    /\ public_keys' = public_keys \ {th[t].arg}
    /\ Return(t, <<th[t].arg, TRUE>>)
    /\ UNCHANGED <<do_public_key_auth, allowed_workers, registered_workers,
                   clock, last, everStored>>

\* authenticate_worker, lines 323 to 330, and authenticate_and_add_worker,
\* lines 94 and 98.
AuthenticateKeyCheck(t) ==
    /\ th[t].pc = "authenticate_and_add_worker"
    /\ IF ~do_public_key_auth THEN Goto(t, "generate_id")
       ELSE IF th[t].arg \notin public_keys
            THEN Return(t, <<INVALID_WORKER, FALSE>>)
            ELSE Goto(t, "verify")
    /\ UNCHANGED <<do_public_key_auth, public_keys, allowed_workers,
                   registered_workers, clock, last, everStored>>

\* authenticate_worker, lines 331 to 340: the lookup of a key deleted
\* meanwhile raises KeyError, which like binascii.Error is not caught.
AuthenticateVerify(t) ==
    /\ th[t].pc = "verify"
    /\ IF th[t].arg \notin public_keys THEN Raise(t, "KeyError")
       ELSE LET v == Verify(th[t].arg, th[t].sig)
            IN  IF v = "ok" THEN Goto(t, "generate_id")
                ELSE IF v = "BadSignatureError"
                     THEN Return(t, <<INVALID_WORKER, FALSE>>)
                     ELSE Raise(t, v)
    /\ UNCHANGED <<do_public_key_auth, public_keys, allowed_workers,
                   registered_workers, clock, last, everStored>>

NextThreads ==
    \E t \in Threads :
        \/ BeginAddWorker(t)
        \/ BeginRemoveWorker(t)
        \/ BeginAuthenticateAndAddWorker(t)
        \/ BeginSetRegistrationStatus(t)
        \/ AddWorkerKeyCheck(t)
        \/ AddWorkerKeyStore(t)
        \/ GenerateId(t)
        \/ AddWorkerConsistencyCheck(t)
        \/ AddWorkerAllowedCheck(t)
        \/ AddWorkerAppend(t)
        \/ AddWorkerSetUnregistered(t)
        \/ SetStatusAllowedCheck(t)
        \/ SetStatusRead(t)
        \/ SetStatusWrite(t)
        \/ RemoveAllowedCheck(t)
        \/ RemoveFromAllowed(t)
        \/ RemoveKeyCheck(t)
        \/ RemoveKeyDelete(t)
        \/ AuthenticateKeyCheck(t)
        \/ AuthenticateVerify(t)

SpecThreads == Init /\ [][NextThreads]_vars

\* ------------------------------------------------------------------ claims
\* C1: (I2) in every reachable state the identities that have an entry in
\* registered_workers are all in allowed_workers; remove_worker on an allowed
\* identity removes its registered_workers entry with its membership and key.
C1_RegisteredSubsetAllowed ==
    /\ DOMAIN registered_workers \subseteq Range(allowed_workers)
    /\ (last.op = "remove_worker" /\ last.arg \in Range(last.pre.allowed_workers)
            => /\ last.arg \notin DOMAIN registered_workers
               /\ last.arg \notin Range(allowed_workers)
               /\ last.arg \notin public_keys)

\* C2: after remove_worker(i), is_worker_allowed(i) and is_worker_registered(i)
\* are false and a following remove_worker(i) returns (INVALID_WORKER, False);
\* remove_worker(i) returns (i, True) exactly when i was allowed before.
C2_RemoveThenQueries ==
    last.op = "remove_worker" =>
        /\ last.exc = "None"
        /\ ~is_worker_allowed(Store, last.arg)
        /\ ~is_worker_registered(Store, last.arg)
        /\ remove_worker(Store, last.arg).val = <<INVALID_WORKER, FALSE>>
        /\ (last.val = <<last.arg, TRUE>>) <=> is_worker_allowed(last.pre, last.arg)
        /\ (last.val = <<INVALID_WORKER, FALSE>>) <=> ~is_worker_allowed(last.pre, last.arg)

\* C4: (I1, calls one at a time) in safe mode every identity in
\* allowed_workers has its key in public_keys under the same text.
C4_AllowedHaveKeys ==
    do_public_key_auth => \A w \in Range(allowed_workers) : w \in get_keys(Store)

\* C4 witness: a worker was removed, with its key, while another worker stays
\* allowed with its key.
C4_Witness ==
    /\ do_public_key_auth
    /\ last.op = "remove_worker" /\ last.val = <<last.arg, TRUE>>
    /\ last.arg \notin public_keys
    /\ \E w \in Range(allowed_workers) : w \in public_keys

\* C6: in safe mode a key text that was never put in the key store (by the key
\* list, add_public_key or add_worker) is neither allowed nor registered, and
\* authenticate_and_add_worker for it returns (INVALID_WORKER, False) whatever
\* the signature.
C6_NeverStoredNeverAdmitted ==
    do_public_key_auth =>
        /\ \A k \in KeyTexts \ everStored :
              ~is_worker_allowed(Store, k) /\ ~is_worker_registered(Store, k)
        /\ (last.op = "authenticate_and_add_worker" /\ last.arg \notin everStored
                => last.exc = "None" /\ last.val = <<INVALID_WORKER, FALSE>>)

\* C6 witness: authenticate_and_add_worker was called for a well-formed key
\* that was never stored, with the signature made by that key's private half.
C6_Witness ==
    /\ do_public_key_auth
    /\ last.op = "authenticate_and_add_worker"
    /\ last.arg \in ValidKeys \ everStored
    /\ Verify(last.arg, last.sig) = "ok"
    /\ allowed_workers # <<>>

\* authenticate_worker returned False for the last call's arguments in the
\* store the call started from.
AuthFailed(l) ==
    LET a == authenticate_worker(l.pre, l.arg, l.sig)
    IN  a.exc = "None" /\ ~a.val[1]

C8_ValidAuthRegisters ==
    /\ last.op = "authenticate_and_add_worker" /\ do_public_key_auth
    /\ last.arg \in last.pre.public_keys
    /\ Verify(last.arg, last.sig) = "ok"
    => /\ last.exc = "None" /\ last.val = <<last.arg, TRUE>>
       /\ is_worker_allowed(Store, last.arg)
       /\ is_worker_registered(Store, last.arg)

\* C8 witness: the call was made for a stored key that was already allowed
\* and registered.
C8_Witness ==
    /\ last.op = "authenticate_and_add_worker" /\ do_public_key_auth
    /\ last.arg \in last.pre.public_keys
    /\ Verify(last.arg, last.sig) = "ok"
    /\ is_worker_registered(last.pre, last.arg)
    /\ last.val = <<last.arg, TRUE>>

\* C9: authenticate_worker changes nothing and returns (True,
\* NO_AUTHENTICATION) in unsafe mode; in safe mode it returns the tag
\* AUTHENTICATED with success exactly when the key is stored and the
\* signature verifies against it.
C9_AuthenticateResult ==
    last.op = "authenticate_worker" =>
        /\ Store = last.pre
        /\ last.exc = "None"
        /\ (~do_public_key_auth => last.val = <<TRUE, NO_AUTHENTICATION>>)
        /\ (do_public_key_auth =>
                last.val = <<(/\ last.arg \in last.pre.public_keys
                              /\ Verify(last.arg, last.sig) = "ok"), AUTHENTICATED>>)

\* C10: in safe mode authenticate_worker and authenticate_and_add_worker,
\* called for a stored key with a signature that cannot be decoded, return
\* normally (authenticate_worker with (False, AUTHENTICATED)); no exception
\* leaves the call.
C10_MalformedSignatureReturns ==
    /\ last.op \in {"authenticate_worker", "authenticate_and_add_worker"}
    /\ do_public_key_auth
    /\ last.arg \in last.pre.public_keys
    /\ last.sig = <<"nothex", 0>>
    => /\ last.exc = "None"
       /\ (last.op = "authenticate_worker" => last.val = <<FALSE, AUTHENTICATED>>)
       /\ (last.op = "authenticate_and_add_worker" => last.val = <<INVALID_WORKER, FALSE>>)

\* Thread t has made exactly one call, op, which has returned val.
Made(t, op, arg) ==
    /\ th[t].pc = "idle" /\ th[t].calls = 1 /\ th[t].exc = "None"
    /\ th[t].op = op /\ th[t].arg = arg

\* C3: in safe mode, when every thread runs one add_worker(k) with the same
\* valid key k, interleaved in any order, from a store where k is not
\* allowed, exactly one call returns (k, True), the others return (k, False),
\* and allowed_workers holds k once.
C3_ConcurrentAddOnce ==
    \A k \in ValidKeys :
        /\ do_public_key_auth
        /\ k \notin Range(last.pre.allowed_workers)
        /\ \A t \in Threads : Made(t, "add_worker", k)
        => /\ Cardinality({t \in Threads : th[t].val = <<k, TRUE>>}) = 1
           /\ \A t \in Threads : th[t].val \in {<<k, TRUE>>, <<k, FALSE>>}
           /\ Count(allowed_workers, k) = 1

\* C5: (I1, calls interleaved) in safe mode, once a thread's add_worker(k) or
\* authenticate_and_add_worker(k, valid signature) and another thread's
\* remove_worker(k) have both returned, k is not in allowed_workers without
\* its key in public_keys.
C5_ConcurrentAddRemoveKeepsKey ==
    \A k \in ValidKeys : \A a, r \in Threads :
        /\ do_public_key_auth
        /\ a # r
        /\ \/ Made(a, "add_worker", k)
           \/ Made(a, "authenticate_and_add_worker", k) /\ th[a].val = <<k, TRUE>>
        /\ Made(r, "remove_worker", k)
        /\ \A t \in Threads \ {a, r} : th[t].calls = 0
        => (k \in Range(allowed_workers) => k \in public_keys)


\* C11: in safe mode, after add_worker(k) for a valid key k, k is allowed and
\* allowed_workers holds k once; the call returns (k, True) when k was not
\* allowed before and (k, False) when it was.
C11_AddWorkerMembership ==
    last.op = "add_worker" /\ do_public_key_auth /\ last.arg \in ValidKeys
        => /\ last.exc = "None"
           /\ is_worker_allowed(Store, last.arg)
           /\ Count(allowed_workers, last.arg) = 1
           /\ last.val = <<last.arg, ~is_worker_allowed(last.pre, last.arg)>>

\* C11 witness: add_worker(k) was called while k was allowed and returned
\* (k, False).
C11_Witness ==
    /\ last.op = "add_worker" /\ do_public_key_auth /\ last.arg \in ValidKeys
    /\ is_worker_allowed(last.pre, last.arg)
    /\ last.val = <<last.arg, FALSE>>
    /\ is_worker_allowed(Store, last.arg)

\* C12: set_registration_status(i, v) on an identity that is not allowed
\* returns (INVALID_WORKER, False) and changes nothing; on an allowed identity
\* it returns (i, True) and the status of i is v, also when it was v before.
C12_SetRegistrationStatus ==
    last.op = "set_registration_status" =>
        /\ last.exc = "None"
        /\ (~is_worker_allowed(last.pre, last.arg)
               => last.val = <<INVALID_WORKER, FALSE>> /\ Store = last.pre)
        /\ (is_worker_allowed(last.pre, last.arg)
               => /\ last.val = <<last.arg, TRUE>>
                  /\ registered_workers[last.arg] = last.flag
                  /\ Store = [last.pre EXCEPT !.registered_workers =
                                 DictSet(@, last.arg, last.flag)])

\* C12 witness: the identity was added and then removed before the call,
\* which returned (INVALID_WORKER, False).
C12_Witness ==
    /\ last.op = "set_registration_status" /\ last.flag
    /\ last.arg \in DOMAIN last.pre.registered_workers
    /\ ~is_worker_allowed(last.pre, last.arg)
    /\ last.val = <<INVALID_WORKER, FALSE>>

\* C12 witness of the other case: the identity was allowed with the status
\* the call sets.
C12_WitnessSameValue ==
    /\ last.op = "set_registration_status"
    /\ is_worker_allowed(last.pre, last.arg)
    /\ last.pre.registered_workers[last.arg] = last.flag
    /\ last.val = <<last.arg, TRUE>>


\* C13: in unsafe mode every add_worker call returns (identity, True) with an
\* identity that no earlier call returned, and the identity is allowed
\* afterwards. (registered_workers keeps every identity ever returned with
\* True: nothing deletes from it.)
C13_UnsafeFreshIdentity ==
    last.op = "add_worker" /\ ~do_public_key_auth
        => /\ last.exc = "None"
           /\ last.val[2] = TRUE
           /\ last.val[1] \notin DOMAIN last.pre.registered_workers
           /\ is_worker_allowed(Store, last.val[1])


\* C14: after construction in safe mode with a key list, every key of the
\* list that decodes is allowed (with its key stored) and not registered, and
\* every key of the list that does not decode is neither allowed nor in
\* public_keys; construction completes whatever the list holds.
C14_ConstructionFromKeyList ==
    last.op = "init" /\ do_public_key_auth =>
        \A k \in Range(last.keys) :
            IF VerifyKeyDecodes(k)
            THEN /\ is_worker_allowed(Store, k)
                 /\ ~is_worker_registered(Store, k)
                 /\ k \in get_keys(Store)
            ELSE /\ ~is_worker_allowed(Store, k)
                 /\ k \notin get_keys(Store)

\* C14 witness: the object was constructed from a list whose first key does
\* not decode and whose second key does.
C14_Witness ==
    /\ last.op = "init" /\ do_public_key_auth
    /\ Len(last.keys) = 2
    /\ last.keys[1] \in MalformedKeys /\ last.keys[2] \in ValidKeys
    /\ is_worker_allowed(Store, last.keys[2])


\* C15: get_worker_list returns exactly one record per currently allowed
\* identity, with its current registration flag, and no record for an
\* identity that is not allowed.
C15_WorkerListIsAllowedSet ==
    /\ {r.worker_id : r \in get_worker_list(Store)} = Range(allowed_workers)
    /\ \A w \in Range(allowed_workers) :
          /\ Count(allowed_workers, w) = 1
          /\ [worker_id |-> w, registration_status |-> is_worker_registered(Store, w)]
                \in get_worker_list(Store)

\* C16: in safe mode add_public_key(k) of a valid key returns True and a
\* repeated add_public_key(k) returns True and leaves the store unchanged;
\* delete_public_key(k) returns True whether or not k is stored and a
\* repeated delete_public_key(k) leaves the store unchanged; add_public_key of
\* a malformed key returns False and leaves the store unchanged.
C16_KeyStoreIdempotent ==
    do_public_key_auth /\ last.exc = "None" =>
        /\ (last.op = "add_public_key" /\ VerifyKeyDecodes(last.arg)
               => /\ last.val = TRUE
                  /\ Store = [last.pre EXCEPT !.public_keys = @ \cup {last.arg}]
                  /\ add_public_key(Store, last.arg) = Returned(Store, TRUE))
        /\ (last.op = "add_public_key" /\ ~VerifyKeyDecodes(last.arg)
               => last.val = FALSE /\ Store = last.pre)
        /\ (last.op = "delete_public_key"
               => /\ last.val = TRUE
                  /\ Store = [last.pre EXCEPT !.public_keys = @ \ {last.arg}]
                  /\ delete_public_key(Store, last.arg) = Returned(Store, TRUE))

\* C16 witness: add_public_key(k) was called for a key already stored and
\* left the store as it was.
C16_Witness ==
    /\ do_public_key_auth /\ last.op = "add_public_key"
    /\ last.arg \in last.pre.public_keys
    /\ last.val = TRUE /\ Store = last.pre

\* C16 witness for removal: delete_public_key(k) was called for a key that
\* was not stored.
C16_WitnessDeleteAbsent ==
    /\ do_public_key_auth /\ last.op = "delete_public_key"
    /\ last.arg \notin last.pre.public_keys
    /\ last.val = TRUE /\ Store = last.pre


\* C17: in safe mode, for a key k that was allowed and registered, after
\* remove_worker(k) a following add_worker(k) returns (k, True) and leaves k
\* allowed and not registered.
C17_ReAddForgetsRegistration ==
    /\ (/\ last.op = "remove_worker" /\ do_public_key_auth
        /\ last.arg \in ValidKeys
        /\ is_worker_allowed(last.pre, last.arg)
        /\ is_worker_registered(last.pre, last.arg)
        => \A t \in TimeReadings(clock) :
              LET r == add_worker(Store, last.arg, t)
              IN  /\ r.exc = "None" /\ r.val = <<last.arg, TRUE>>
                  /\ is_worker_allowed(r.st, last.arg)
                  /\ ~is_worker_registered(r.st, last.arg))
    /\ (/\ last.op = "add_worker" /\ do_public_key_auth
        /\ last.arg \in ValidKeys
        /\ ~is_worker_allowed(last.pre, last.arg)
        => /\ last.val = <<last.arg, TRUE>>
           /\ is_worker_allowed(Store, last.arg)
           /\ ~is_worker_registered(Store, last.arg))

\* C17 witness: add_worker(k) was called when k had been removed while
\* registered (its old status True was still recorded), and k is now allowed
\* and not registered.
C17_Witness ==
    /\ last.op = "add_worker" /\ do_public_key_auth
    /\ ~is_worker_allowed(last.pre, last.arg)
    /\ is_worker_registered(last.pre, last.arg)
    /\ last.val = <<last.arg, TRUE>>
    /\ is_worker_allowed(Store, last.arg)
    /\ ~is_worker_registered(Store, last.arg)

\* C18: in safe mode, while k has been removed (it was added once, is not
\* allowed, and its key has not been put back), authenticate_and_add_worker(k,
\* signature) returns (INVALID_WORKER, False) for every signature and k stays
\* not allowed and not registered.
C18_RemovedStaysOut ==
    /\ last.op = "authenticate_and_add_worker" /\ do_public_key_auth
    /\ last.arg \in DOMAIN last.pre.registered_workers
    /\ ~is_worker_allowed(last.pre, last.arg)
    /\ last.arg \notin last.pre.public_keys
    => /\ last.exc = "None" /\ last.val = <<INVALID_WORKER, FALSE>>
       /\ ~is_worker_allowed(Store, last.arg)
       /\ ~is_worker_registered(Store, last.arg)

\* The identity the last add_worker call was about was allowed before it.
AddedWhileAllowed ==
    /\ last.op = "add_worker" /\ last.exc = "None"
    /\ is_worker_allowed(last.pre, last.val[1])

C20_AllowedHaveStatusEntry ==
    /\ Range(allowed_workers) \subseteq DOMAIN registered_workers
    /\ \A t \in Threads :
          ~(th[t].op = "set_registration_status" /\ th[t].exc = "KeyError")

====
